---- MODULE Spec2Model ----
(***************************************************************************)
(* Model of the menu scrapers of Menu-scraping/:                           *)
(*   jupyter_menu_scraper.py  MenuScraper and the batch run run_scraper    *)
(*   firefox_menu_scraper.py  the single-source retry loop scrape_aw_menu  *)
(* Strings the code inspects character by character (restaurant names)    *)
(* are sequences of one-character strings; dictionaries are functions     *)
(* over their keys; lists are sequences.                                   *)
(***************************************************************************)
EXTENDS Integers, Sequences, FiniteSets, TLC

VARIABLES
    restaurants,    \* run_scraper: the requested names
    prior,          \* whether an earlier run left output files behind
    pc,             \* run_scraper: position in the function
    idx,            \* run_scraper: 1-based position of the for loop
    driver,         \* MenuScraper.driver: "none" | "open" | "closed"
    all_menu_data,  \* run_scraper: the combined list
    outcome,        \* per position: what the page did for that restaurant
    extracted,      \* per position: what scrape_restaurant returned
    result,         \* run_scraper: "none" | "True" | "False" | "raised"
    raisedAt,       \* position whose processing raised into run_scraper (0: none)
    files,          \* the output directory: file name -> [exists, content]
    saved           \* names of the save calls made so far (save_as_json / save_as_csv)

batchVars == <<restaurants, prior, pc, idx, driver, all_menu_data, outcome,
               extracted, result, raisedAt, files, saved>>

VARIABLES
    attempt,        \* scrape_aw_menu: the loop variable of range(max_retries)
    rpc,            \* scrape_aw_menu: position inside the try block, or "done"
    sessions,       \* Firefox sessions opened and not quit
    menu_data,      \* scrape_aw_menu: the records of the current attempt
    sleeps,         \* the durations of the time.sleep calls made, in order
    log,            \* how each attempt begun so far ended: "running" | "ok" | "raised"
    returned,       \* scrape_aw_menu: [done, data]
    awFiles         \* menu_data/aw_menu.json and menu_data/aw_menu.csv

retryVars == <<attempt, rpc, sessions, menu_data, sleeps, log, returned, awFiles>>

VARIABLES
    spc,            \* scroll_page / scroll_to_bottom: "start" | "loop" | "done"
    height,         \* document.body.scrollHeight of the page
    last_height,    \* scroll_page: last_height
    measured        \* every scrollHeight measurement made so far, in order

scrollVars == <<spc, height, last_height, measured>>

VARIABLES
    rname,          \* scrape_restaurant: the caller's restaurant_name
    rcalled,        \* scrape_restaurant: the extractors invoked, in order
    rret            \* scrape_restaurant: [done, raised, data]

resolveVars == <<rname, rcalled, rret>>

VARIABLES
    csvData,        \* save_as_csv: the data argument
    csvFile,        \* save_as_csv: the file named by the filename argument
    csvRet          \* save_as_csv: "none" | "True" | "False"

csvVars == <<csvData, csvFile, csvRet>>

VARIABLES
    xpage,          \* the rendered page handed to BeautifulSoup: [titles, items]
    xwhich,         \* the extractor that parses it
    xret            \* the extractor's outcome: [done, raised, data]

extractVars == <<xpage, xwhich, xret>>

vars == <<batchVars, retryVars, scrollVars, resolveVars, csvVars, extractVars>>

\* the variables of the other entry points
notBatch == <<retryVars, scrollVars, resolveVars, csvVars, extractVars>>
notRetry == <<batchVars, scrollVars, resolveVars, csvVars, extractVars>>
notScroll == <<batchVars, retryVars, resolveVars, csvVars, extractVars>>
notResolve == <<batchVars, retryVars, scrollVars, csvVars, extractVars>>
notCsv == <<batchVars, retryVars, scrollVars, resolveVars, extractVars>>
notExtract == <<batchVars, retryVars, scrollVars, resolveVars, csvVars>>

(***************************************************************************)
(* Bounds of the model.                                                    *)
(***************************************************************************)
MaxRestaurants == 2

(***************************************************************************)
(* Strings as sequences of characters.                                     *)
(***************************************************************************)
UpperAlphabet == <<"A","B","C","D","E","F","G","H","I","J","K","L","M",
                   "N","O","P","Q","R","S","T","U","V","W","X","Y","Z">>
LowerAlphabet == <<"a","b","c","d","e","f","g","h","i","j","k","l","m",
                   "n","o","p","q","r","s","t","u","v","w","x","y","z">>

\* str.lower() on one character
LowerChar(c) ==
    IF \E i \in 1..26 : UpperAlphabet[i] = c
    THEN LowerAlphabet[CHOOSE i \in 1..26 : UpperAlphabet[i] = c]
    ELSE c

\* the name used as typed
Lower_None(s) == s

\* str.lower()
Lower(s) == [i \in 1..Len(s) |-> LowerChar(s[i])]

\* str.strip(): drops leading and trailing whitespace
RECURSIVE LStrip(_)
LStrip(s) == IF s # <<>> /\ Head(s) = " " THEN LStrip(Tail(s)) ELSE s
RECURSIVE RStrip(_)
RStrip(s) == IF s # <<>> /\ s[Len(s)] = " " THEN RStrip(SubSeq(s, 1, Len(s) - 1)) ELSE s
Strip(s) == RStrip(LStrip(s))

\* the Python test  pat in s
Contains(s, pat) ==
    \E i \in 1..(Len(s) - Len(pat) + 1) : SubSeq(s, i, i + Len(pat) - 1) = pat

\* str.replace(old, new) for a one-character old
RECURSIVE Replace(_, _, _)
Replace(s, old, new) ==
    IF s = <<>> THEN <<>>
    ELSE (IF Head(s) = old THEN new ELSE <<Head(s)>>) \o Replace(Tail(s), old, new)

(***************************************************************************)
(* Menu items: the dictionaries the extractors append to menu_data.        *)
(* scrape_aw records carry nutritional_info; the other two do not.         *)
(***************************************************************************)
EmptyDict == [k \in {} |-> ""]

AwItem(n, nutrition) ==
    [restaurant |-> "A&W", category |-> "Burgers", name |-> n,
     price |-> "Price not available online", description |-> "",
     image_url |-> "https://web.aw.ca/img.png", nutritional_info |-> nutrition]

McItem(n) ==
    [restaurant |-> "McDonald's", category |-> "Breakfast", name |-> n,
     price |-> "N/A", description |-> "", image_url |-> ""]

BkItem(n) ==
    [restaurant |-> "Burger King", category |-> "Sides", name |-> n,
     price |-> "N/A", description |-> "", image_url |-> ""]

\* nutrition tables scrape_aw can build from .nutrition-item elements
Nutritions ==
    { EmptyDict,
      [k \in {"Calories"} |-> "500"],
      [k \in {"Calories", "Fat"} |-> IF k = "Calories" THEN "250" ELSE "9g"],
      [k \in {"calories"} |-> "90"] }

(***************************************************************************)
(* MenuScraper.save_as_csv                                                 *)
(***************************************************************************)
\* flat_item of the flattening loop: nutritional_info[k] becomes the key
\* nutrition_k, then nutritional_info is deleted
Flatten(item) ==
    IF "nutritional_info" \in DOMAIN item
    THEN LET nut  == item["nutritional_info"]
             kept == DOMAIN item \ {"nutritional_info"}
             new  == { "nutrition_" \o k : k \in DOMAIN nut }
         IN  [f \in (kept \cup new) |->
                 IF f \in new
                 THEN nut[CHOOSE k \in DOMAIN nut : "nutrition_" \o k = f]
                 ELSE item[f]]
    ELSE item

\* flattened_data
FlattenAll(data) == [i \in 1..Len(data) |-> Flatten(data[i])]

\* all_fields: the union of the keys of the flattened items
AllFields(flat) == UNION { DOMAIN flat[i] : i \in 1..Len(flat) }

\* Python's order on str (code points) for the column names that occur:
\* upper-case letters sort before lower-case ones
ColumnOrder ==
    <<"category", "description", "image_url", "name",
      "nutrition_Calories", "nutrition_Fat", "nutrition_calories",
      "nutritional_info", "price", "restaurant">>

Rank(a) == CHOOSE i \in 1..Len(ColumnOrder) : ColumnOrder[i] = a

\* a < b on two column names
StrLess(a, b) == Rank(a) < Rank(b)

\* sorted(list(all_fields))
RECURSIVE Sorted(_)
Sorted(S) ==
    IF S = {} THEN <<>>
    ELSE LET m == CHOOSE x \in S : \A y \in S \ {x} : StrLess(x, y)
         IN  <<m>> \o Sorted(S \ {m})

\* csv.DictWriter.writerow: one cell per fieldname, restval '' for a missing key
Row(flat_item, fieldnames) ==
    [c \in 1..Len(fieldnames) |->
        IF fieldnames[c] \in DOMAIN flat_item THEN flat_item[fieldnames[c]] ELSE ""]

\* the columns taken from the first record alone
Fieldnames_FirstRecord(data) == Sorted(DOMAIN Flatten(data[1]))

\* fieldnames of save_as_csv
Fieldnames(data) == Sorted(AllFields(FlattenAll(data)))

\* what writeheader and writerows put in the file
CsvTable(data) ==
    LET flat       == FlattenAll(data)
        fieldnames == Fieldnames(data)
    IN  [header |-> fieldnames,
         rows   |-> [i \in 1..Len(flat) |-> Row(flat[i], fieldnames)]]

NoTable == [header |-> <<>>, rows |-> <<>>]

\* save_as_csv without  if not data: return False
save_as_csv_NoEmptyCheck(data, f, ioOk) ==
    IF ioOk THEN <<TRUE, [exists |-> TRUE, content |-> CsvTable(data)]>>
    ELSE <<FALSE, f>>

\* save_as_csv(data, filename) on the file f; ioOk: open() and the writes succeed
\* returns <<return value, the file afterwards>>
save_as_csv(data, f, ioOk) ==
    IF data = <<>> THEN <<FALSE, f>>
    ELSE IF ioOk THEN <<TRUE, [exists |-> TRUE, content |-> CsvTable(data)]>>
    ELSE <<FALSE, f>>

\* save_as_json(data, filename): json.dump keeps the nested structure
save_as_json(data, f, ioOk) ==
    IF ioOk THEN <<TRUE, [exists |-> TRUE, content |-> data]>>
    ELSE <<FALSE, f>>

(***************************************************************************)
(* MenuScraper.scrape_restaurant and the three extractors                  *)
(***************************************************************************)
\* a list entry that is not a str (restaurant_name.lower() raises on it)
NonStr == <<"<not a str>">>

PatAW        == <<"a","&","w">>
PatAWSpaced  == <<"a"," ","&"," ","w">>
PatMcDonald  == <<"m","c","d","o","n","a","l","d">>
PatBurgerKing == <<"b","u","r","g","e","r"," ","k","i","n","g">>
PatBurgerking == <<"b","u","r","g","e","r","k","i","n","g">>

\* the if / elif chain of scrape_restaurant: which extractor a name reaches
Extractor(restaurant_name) ==
    LET n == Strip(Lower(restaurant_name))
    IN  IF Contains(n, PatAW) \/ Contains(n, PatAWSpaced) THEN "scrape_aw"
        ELSE IF Contains(n, PatMcDonald) THEN "scrape_mcdonalds"
        ELSE IF Contains(n, PatBurgerKing) \/ Contains(n, PatBurgerking)
        THEN "scrape_burger_king"
        ELSE "unsupported"

\* What the site does when an extractor visits it: navigation, the marker
\* wait, scrolling or parsing raises, or the page yields these items.
RaisingPage == [raises |-> TRUE, items |-> <<>>]

Pages(extractor) ==
    IF extractor = "scrape_aw"
    THEN { RaisingPage, [raises |-> FALSE, items |-> <<>>],
           [raises |-> FALSE,
            items |-> << AwItem("Teen Burger", [k \in {"Calories"} |-> "500"]),
                         AwItem("Root Beer", EmptyDict) >>] }
    ELSE IF extractor = "scrape_mcdonalds"
    THEN { RaisingPage, [raises |-> FALSE, items |-> <<>>],
           [raises |-> FALSE, items |-> << McItem("Big Mac") >>] }
    ELSE IF extractor = "scrape_burger_king"
    THEN { RaisingPage, [raises |-> FALSE, items |-> <<>>],
           [raises |-> FALSE, items |-> << BkItem("Whopper") >>] }
    ELSE { [raises |-> FALSE, items |-> <<>>] }

\* a scrape_* body without its try / except: the exception leaves the method
scrape_NoExcept(page) ==
    IF page.raises THEN [raised |-> TRUE, data |-> <<>>]
    ELSE [raised |-> FALSE, data |-> page.items]

\* scrape_aw / scrape_mcdonalds / scrape_burger_king: try: ... return menu_data
\* except Exception: log, return []
scrape(page) ==
    IF page.raises THEN [raised |-> FALSE, data |-> <<>>]
    ELSE [raised |-> FALSE, data |-> page.items]

\* scrape_restaurant(restaurant_name) on a str
scrape_restaurant(restaurant_name, page) ==
    IF Extractor(restaurant_name) = "unsupported"
    THEN [raised |-> FALSE, data |-> <<>>]
    ELSE scrape(page)

(***************************************************************************)
(* run_scraper                                                             *)
(***************************************************************************)
NameAW       == <<"A","&","W">>
NameMcD      == <<"M","c","D","o","n","a","l","d","s">>
NameBK       == <<"B","u","r","g","e","r"," ","K","i","n","g">>
NameUnknown  == <<"u","n","k","n","o","w","n","-","p","l","a","c","e">>

BatchNames == {NameAW, NameMcD, NameBK, NameUnknown, NonStr}

\* the characters of s as one string
RECURSIVE Join(_)
Join(s) == IF s = <<>> THEN "" ELSE Head(s) \o Join(Tail(s))

\* restaurant.lower().replace(" ", "_").replace("&", "and")
OutputBase(restaurant) ==
    Join(Replace(Replace(Lower(restaurant), " ", <<"_">>), "&", <<"a","n","d">>))

\* f"{output_base}_menu.json" and f"{output_base}_menu.csv"
JsonFile(base) == base \o "_menu.json"
CsvFile(base)  == base \o "_menu.csv"

OutputBases == { OutputBase(r) : r \in BatchNames \ {NonStr} } \cup {"all_restaurants"}

JsonFiles == { JsonFile(b) : b \in OutputBases }

FileNames == JsonFiles \cup { CsvFile(b) : b \in OutputBases }

IsJson(fn) == fn \in JsonFiles

\* what an earlier run, in which every restaurant returned this item, left behind
StaleData == << McItem("Stale") >>

Absent(fn) == [exists |-> FALSE, content |-> IF IsJson(fn) THEN <<>> ELSE NoTable]

InitialFiles(p) ==
    [fn \in FileNames |->
        IF p THEN [exists |-> TRUE,
                   content |-> IF IsJson(fn) THEN StaleData ELSE CsvTable(StaleData)]
        ELSE Absent(fn)]

\* MenuScraper.close without the quit
close_NoQuit(d) == d

\* MenuScraper.close: if hasattr(self, 'driver'): self.driver.quit()
close(d) == IF d = "none" THEN d ELSE "closed"

Names(n) == UNION { [1..k -> BatchNames] : k \in 1..n }

BatchInit ==
    /\ restaurants \in Names(MaxRestaurants)
    /\ prior \in BOOLEAN
    /\ pc = "start"
    /\ idx = 1
    /\ driver = "none"
    /\ all_menu_data = <<>>
    /\ outcome = [i \in 1..Len(restaurants) |-> "pending"]
    /\ extracted = [i \in 1..Len(restaurants) |-> <<>>]
    /\ result = "none"
    /\ raisedAt = 0
    /\ files = InitialFiles(prior)
    /\ saved = [fn \in FileNames |-> "no"]

\* scraper = MenuScraper(...): setup_driver opens the browser, or raises before
\* run_scraper's try block is entered
CreateSession ==
    /\ pc = "start"
    /\ \E ok \in BOOLEAN :
        IF ok THEN /\ driver' = "open"
                   /\ pc' = "loop"
                   /\ UNCHANGED result
        ELSE /\ driver' = "none"
             /\ pc' = "done"
             /\ result' = "raised"
    /\ UNCHANGED <<restaurants, prior, idx, all_menu_data, outcome, extracted, raisedAt,
                   files, saved>>
    /\ UNCHANGED notBatch

\* the two saves of one output pair: <<files afterwards, saved afterwards>>
SavePair(fs, sv, base, data, jsonOk, csvOk) ==
    LET j == save_as_json(data, fs[JsonFile(base)], jsonOk)
        c == save_as_csv(data, fs[CsvFile(base)], csvOk)
    IN  << [fs EXCEPT ![JsonFile(base)] = j[2], ![CsvFile(base)] = c[2]],
           [sv EXCEPT ![JsonFile(base)] = IF j[1] THEN "ok" ELSE "failed",
                      ![CsvFile(base)]  = IF c[1] THEN "ok" ELSE "failed"] >>

\* the loop body saving whatever came back, items or not
ShouldSave_Always(scraped) == TRUE

\* if menu_data:
ShouldSave(scraped) == scraped # <<>>

\* all_menu_data = menu_data
Extend_Assign(all, scraped) == scraped

\* all_menu_data.extend(menu_data)
Extend(all, scraped) == all \o scraped

\* the combined pair written for any non-empty list, one restaurant or more
CombinedWanted_NoCount(rs, all) == all # <<>>

\* if len(restaurants) > 1 and all_menu_data:
CombinedWanted(rs, all) == Len(rs) > 1 /\ all # <<>>

\* one pass of  for restaurant in restaurants:
ProcessRestaurant ==
    /\ pc = "loop"
    /\ idx <= Len(restaurants)
    /\ LET restaurant == restaurants[idx] IN
       IF restaurant = NonStr
       THEN \* restaurant_name.lower() raises AttributeError: except Exception
            /\ outcome' = [outcome EXCEPT ![idx] = "raised"]
            /\ raisedAt' = idx
            /\ result' = "False"
            /\ pc' = "finally"
            /\ UNCHANGED <<idx, all_menu_data, extracted, files, saved>>
       ELSE \E page \in Pages(Extractor(restaurant)), jsonOk, csvOk \in BOOLEAN :
            LET r         == scrape_restaurant(restaurant, page)
                scraped   == r.data
                sp        == SavePair(files, saved, OutputBase(restaurant),
                                      scraped, jsonOk, csvOk)
            IN  /\ outcome' = [outcome EXCEPT ![idx] =
                        IF Extractor(restaurant) = "unsupported" THEN "unsupported"
                        ELSE IF page.raises THEN "failed"
                        ELSE IF page.items = <<>> THEN "empty" ELSE "items"]
                /\ IF r.raised
                   THEN /\ raisedAt' = idx
                        /\ result' = "False"
                        /\ pc' = "finally"
                        /\ UNCHANGED <<idx, all_menu_data, extracted, files, saved>>
                   ELSE /\ idx' = idx + 1
                        /\ extracted' = [extracted EXCEPT ![idx] = scraped]
                        /\ IF ShouldSave(scraped)
                           THEN /\ files' = sp[1]
                                /\ saved' = sp[2]
                                /\ all_menu_data' = Extend(all_menu_data, scraped)
                           ELSE UNCHANGED <<files, saved, all_menu_data>>
                        /\ UNCHANGED <<pc, result, raisedAt>>
    /\ UNCHANGED <<restaurants, prior, driver>>
    /\ UNCHANGED notBatch

\* after the loop: the combined pair, then return True
SaveCombined ==
    /\ pc = "loop"
    /\ idx > Len(restaurants)
    /\ \E jsonOk, csvOk \in BOOLEAN :
        LET sp == SavePair(files, saved, "all_restaurants", all_menu_data, jsonOk, csvOk)
        IN  IF CombinedWanted(restaurants, all_menu_data)
            THEN files' = sp[1] /\ saved' = sp[2]
            ELSE UNCHANGED <<files, saved>>
    /\ result' = "True"
    /\ pc' = "finally"
    /\ UNCHANGED <<restaurants, prior, idx, driver, all_menu_data, outcome, extracted,
                   raisedAt>>
    /\ UNCHANGED notBatch

\* a BaseException (KeyboardInterrupt) inside the try block: except Exception
\* does not catch it, the finally clause runs and it leaves run_scraper
Interrupt ==
    /\ pc = "loop"
    /\ result' = "raised"
    /\ pc' = "finally"
    /\ UNCHANGED <<restaurants, prior, idx, driver, all_menu_data, outcome, extracted,
                   raisedAt, files, saved>>
    /\ UNCHANGED notBatch

\* finally: scraper.close()
Finally ==
    /\ pc = "finally"
    /\ driver' = close(driver)
    /\ pc' = "done"
    /\ UNCHANGED <<restaurants, prior, idx, all_menu_data, outcome, extracted, result,
                   raisedAt, files, saved>>
    /\ UNCHANGED notBatch

(***************************************************************************)
(* firefox_menu_scraper.py: scrape_aw_menu                                 *)
(***************************************************************************)
max_retries == 3
RetryBackoff == 5

\* the records scrape_aw_menu builds: no nutritional_info
FxItem(n) ==
    [restaurant |-> "A&W", category |-> "Burgers", name |-> n,
     price |-> "Price not available online", description |-> "",
     image_url |-> ""]

\* what one rendering of the page can yield
FxPages == { <<>>, << FxItem("Teen Burger") >>, << FxItem("Teen Burger"), FxItem("Root Beer") >> }

\* csv.DictWriter(fieldnames=menu_data[0].keys()): the keys in insertion order
FxFieldnames == <<"restaurant", "category", "name", "price", "description", "image_url">>

FxCsvTable(data) ==
    [header |-> FxFieldnames,
     rows   |-> [i \in 1..Len(data) |-> Row(data[i], FxFieldnames)]]

AwFileNames == {"aw_menu.json", "aw_menu.csv"}

RetryInit ==
    /\ attempt = 0
    /\ rpc = "open"
    /\ sessions = 0
    /\ menu_data = <<>>
    /\ sleeps = <<>>
    /\ log = <<"running">>
    /\ returned = [done |-> FALSE, data |-> <<>>]
    /\ \E p \in BOOLEAN :
         awFiles = [fn \in AwFileNames |->
                      IF p THEN [exists |-> TRUE,
                                 content |-> IF fn = "aw_menu.json" THEN StaleData
                                             ELSE FxCsvTable(StaleData)]
                      ELSE [exists |-> FALSE,
                            content |-> IF fn = "aw_menu.json" THEN <<>> ELSE NoTable]]

\* the handler retrying after every failed attempt, the last included
OnException_NoLimit ==
    << attempt + 1, "open", Append(sleeps, RetryBackoff),
       [log EXCEPT ![Len(log)] = "raised"] \o <<"running">>, returned >>

\* except Exception as e: retry after time.sleep(5), or give up with []
\* <<attempt, rpc, sleeps, log, returned>> afterwards
OnException ==
    IF attempt < max_retries - 1
    THEN << attempt + 1, "open", Append(sleeps, RetryBackoff),
            [log EXCEPT ![Len(log)] = "raised"] \o <<"running">>, returned >>
    ELSE << attempt, "done", sleeps,
            [log EXCEPT ![Len(log)] = "raised"], [done |-> TRUE, data |-> <<>>] >>

Raise ==
    /\ attempt'  = OnException[1]
    /\ rpc'      = OnException[2]
    /\ sleeps'   = OnException[3]
    /\ log'      = OnException[4]
    /\ returned' = OnException[5]

\* GeckoDriverManager().install() and webdriver.Firefox(...)
OpenFirefox ==
    /\ rpc = "open"
    /\ \E ok \in BOOLEAN :
        IF ok THEN /\ sessions' = sessions + 1
                   /\ rpc' = "extract"
                   /\ UNCHANGED <<attempt, sleeps, log, returned>>
        ELSE Raise /\ UNCHANGED sessions
    /\ UNCHANGED <<menu_data, awFiles>>
    /\ UNCHANGED notRetry

\* driver.get, WebDriverWait(...).until, scroll_to_bottom, the parse, driver.quit()
\* an exception in any of the first four skips driver.quit()
ExtractFirefox ==
    /\ rpc = "extract"
    /\ \/ \E items \in FxPages :
            /\ menu_data' = items
            /\ sessions' = sessions - 1
            /\ rpc' = "save"
            /\ UNCHANGED <<attempt, sleeps, log, returned>>
       \/ Raise /\ UNCHANGED <<menu_data, sessions>>
    /\ UNCHANGED awFiles
    /\ UNCHANGED notRetry

\* if menu_data: write both files; return menu_data
\* a failing open() raises into the except clause of the retry loop
SaveFirefox ==
    /\ rpc = "save"
    /\ \E jsonOk, csvOk \in BOOLEAN :
        IF menu_data = <<>> \/ (jsonOk /\ csvOk)
        THEN /\ awFiles' = IF menu_data = <<>> THEN awFiles
                           ELSE [awFiles EXCEPT
                                   !["aw_menu.json"] = [exists |-> TRUE, content |-> menu_data],
                                   !["aw_menu.csv"]  = [exists |-> TRUE, content |-> FxCsvTable(menu_data)]]
             /\ returned' = [done |-> TRUE, data |-> menu_data]
             /\ log' = [log EXCEPT ![Len(log)] = "ok"]
             /\ rpc' = "done"
             /\ UNCHANGED <<attempt, sleeps>>
        ELSE /\ awFiles' = IF jsonOk
                           THEN [awFiles EXCEPT
                                   !["aw_menu.json"] = [exists |-> TRUE, content |-> menu_data]]
                           ELSE awFiles
             /\ Raise
    /\ UNCHANGED <<menu_data, sessions>>
    /\ UNCHANGED notRetry

(***************************************************************************)
(* MenuScraper.scroll_page and scroll_to_bottom (the same loop)            *)
(***************************************************************************)
MaxHeight == 4
MaxChanges == 3

ScrollInit ==
    /\ spc = "start"
    /\ height \in 1..MaxHeight
    /\ last_height = 0
    /\ measured = <<>>

\* last_height = execute_script("return document.body.scrollHeight")
MeasureFirst ==
    /\ spc = "start"
    /\ last_height' = height
    /\ measured' = <<height>>
    /\ spc' = "loop"
    /\ UNCHANGED height
    /\ UNCHANGED notScroll

\* number of measurements that differ from the one before
Changes(m) == Cardinality({i \in 2..Len(m) : m[i] # m[i-1]})

\* if new_height == last_height: break
Converged(new_height, last) == new_height = last

\* the loop without  last_height = new_height
NextLast_Stale(new_height, last) == last

\* last_height = new_height
NextLast(new_height, last) == new_height

\* one pass of while True: scrollTo the bottom, sleep, measure, compare;
\* while the pass sleeps the page may load content and change its height
ScrollPass ==
    /\ spc = "loop"
    /\ Len(measured) <= MaxChanges + 1
    /\ \E new_height \in 1..MaxHeight :
        /\ new_height # height => Changes(measured) < MaxChanges
        /\ height' = new_height
        /\ measured' = Append(measured, new_height)
        /\ IF Converged(new_height, last_height)
           THEN spc' = "done" /\ UNCHANGED last_height
           ELSE spc' = "loop" /\ last_height' = NextLast(new_height, last_height)
    /\ UNCHANGED notScroll

(***************************************************************************)
(* scrape_restaurant called on its own, over names built from fragments    *)
(***************************************************************************)
MaxParts == 2

Fragments ==
    { <<"A","&","W">>,
      <<"a"," ","&"," ","W">>,
      <<"a"," ","&","w">>,
      <<"M","c","D","o","n","a","l","d">>,
      <<"M","C","D","O","N","A","L","D","'","S">>,
      <<"B","u","r","g","e","r"," ","K","i","n","g">>,
      <<"B","U","R","G","E","R","K","I","N","G">>,
      <<"b","u","r","g","e","r"," "," ","k","i","n","g">>,
      <<"P","i","z","z","a">>,
      <<" ">> }

RECURSIVE Concat(_)
Concat(parts) == IF parts = <<>> THEN <<>> ELSE Head(parts) \o Concat(Tail(parts))

ResolveNames == { Concat(ps) : ps \in UNION { [1..k -> Fragments] : k \in 1..MaxParts } }

ResolveInit ==
    /\ rname \in ResolveNames
    /\ rcalled = <<>>
    /\ rret = [done |-> FALSE, raised |-> FALSE, data |-> <<>>]

\* scraper.scrape_restaurant(rname)
CallScrapeRestaurant ==
    /\ ~rret.done
    /\ \E page \in Pages(Extractor(rname)) :
        LET r == scrape_restaurant(rname, page)
        IN  /\ rcalled' = IF Extractor(rname) = "unsupported" THEN <<>>
                          ELSE <<Extractor(rname)>>
            /\ rret' = [done |-> TRUE, raised |-> r.raised, data |-> r.data]
    /\ UNCHANGED rname
    /\ UNCHANGED notResolve

(***************************************************************************)
(* save_as_csv called on its own                                           *)
(***************************************************************************)
MaxRecords == 2

ItemPool ==
    { AwItem("Teen Burger", n) : n \in Nutritions } \cup { McItem("Big Mac"), BkItem("Whopper") }

CsvInit ==
    /\ csvData \in UNION { [1..k -> ItemPool] : k \in 0..MaxRecords }
    /\ csvFile \in { [exists |-> FALSE, content |-> NoTable],
                     [exists |-> TRUE, content |-> CsvTable(StaleData)] }
    /\ csvRet = "none"

\* scraper.save_as_csv(csvData, filename)
CallSaveCsv ==
    /\ csvRet = "none"
    /\ \E ioOk \in BOOLEAN :
        LET r == save_as_csv(csvData, csvFile, ioOk)
        IN  /\ csvRet' = IF r[1] THEN "True" ELSE "False"
            /\ csvFile' = r[2]
    /\ UNCHANGED csvData
    /\ UNCHANGED notCsv

(***************************************************************************)
(* The parsing part of the extractors: scrape_aw, scrape_mcdonalds,        *)
(* scrape_burger_king (jupyter_menu_scraper.py) and scrape_aw_menu         *)
(* (firefox_menu_scraper.py), from the BeautifulSoup tree to menu_data.    *)
(* A page is a sequence of category blocks, one title slot per block, each *)
(* block holding the same sequence of item blocks. What a select_one can   *)
(* match is a sequence of at most one element: <<>> when the element is    *)
(* missing. Titles and image sources are sequences of characters.          *)
(***************************************************************************)
MaxCategories == 2
MaxBlockItems == 2

TitleBurgers == <<"B","u","r","g","e","r","s">>
TitleFishAmp == <<"F","i","s","h"," ","&"," ","C","h","i","p","s">>
TitleFishAnd == <<"F","i","s","h"," ","a","n","d"," ","C","h","i","p","s">>

\* the title slot of a category block: no title element, or one with this text
Titles == { <<>>, <<TitleBurgers>>, <<TitleFishAmp>>, <<TitleFishAnd>> }

SrcAbsolute == <<"h","t","t","p","s",":","/","/","c","d","n",".","x","/","a",".","p","n","g">>
SrcRootRelative == <<"/","i","m","g","/","a",".","p","n","g">>

\* item blocks: complete; every optional sub-element missing; no description
\* and a root-relative image; no price and an img tag with an empty src
ItemBlocks ==
    { [name |-> <<"Teen Burger">>, desc |-> <<"Tasty">>, price |-> <<"$5.99">>,
       img |-> <<SrcAbsolute>>, nutrition |-> [k \in {"Calories"} |-> "500"]],
      [name |-> <<>>, desc |-> <<>>, price |-> <<>>, img |-> <<>>, nutrition |-> EmptyDict],
      [name |-> <<"Root Beer">>, desc |-> <<>>, price |-> <<"$2.00">>,
       img |-> <<SrcRootRelative>>, nutrition |-> EmptyDict],
      [name |-> <<"Fries">>, desc |-> <<"Hot">>, price |-> <<>>,
       img |-> << <<>> >>, nutrition |-> EmptyDict] }

ExtractorNames == {"scrape_aw", "scrape_mcdonalds", "scrape_burger_king", "scrape_aw_menu"}

\* a missing sub-element leaving the field empty
TextOr_NoSentinel(elems, sentinel) == IF elems # <<>> THEN Head(elems) ELSE ""

\* elem.get_text(strip=True) if elem else sentinel, on an item sub-element
TextOr(elems, sentinel) == IF elems # <<>> THEN Head(elems) ELSE sentinel

\* the title's get_text(strip=True) if the title element exists else "Uncategorized"
CategoryName(title) ==
    IF title # <<>> THEN Join(Strip(Head(title))) ELSE "Uncategorized"

AwOrigin == <<"h","t","t","p","s",":","/","/","w","e","b",".","a","w",".","c","a">>

\* scrape_aw, scrape_aw_menu: item_image = src, made absolute when it starts with "/"
ImageRewritten(img) ==
    IF img # <<>> /\ Head(img) # <<>>
    THEN IF Head(Head(img)) = "/" THEN Join(AwOrigin \o Head(img)) ELSE Join(Head(img))
    ELSE ""

\* scrape_mcdonalds, scrape_burger_king: item_image = src as it is
ImageCopied(img) ==
    IF img # <<>> /\ Head(img) # <<>> THEN Join(Head(img)) ELSE ""

\* the dictionary scrape_aw appends for one .menu-item
AwRecord(category_name, item) ==
    [restaurant |-> "A&W", category |-> category_name,
     name |-> TextOr(item.name, "Unknown"),
     price |-> TextOr(item.price, "Price not available online"),
     description |-> TextOr(item.desc, ""),
     image_url |-> ImageRewritten(item.img),
     nutritional_info |-> item.nutrition]

\* the dictionary scrape_mcdonalds appends for one .cmp-category-item
McdRecord(category_name, item) ==
    [restaurant |-> "McDonald's", category |-> category_name,
     name |-> TextOr(item.name, "Unknown"),
     price |-> TextOr(item.price, "N/A"),
     description |-> TextOr(item.desc, ""),
     image_url |-> ImageCopied(item.img)]

\* the dictionary scrape_burger_king appends for one .menuItem_wrapper__X_zY_
BkRecord(category_name, item) ==
    [restaurant |-> "Burger King", category |-> category_name,
     name |-> TextOr(item.name, "Unknown"),
     price |-> TextOr(item.price, "N/A"),
     description |-> TextOr(item.desc, ""),
     image_url |-> ImageCopied(item.img)]

\* the dictionary scrape_aw_menu appends for one .item
FxRecord(category, item) ==
    [restaurant |-> "A&W", category |-> category,
     name |-> TextOr(item.name, "Unknown"),
     price |-> TextOr(item.price, "Price not available online"),
     description |-> TextOr(item.desc, ""),
     image_url |-> ImageRewritten(item.img)]

RecordOf(which, category_name, item) ==
    IF which = "scrape_aw" THEN AwRecord(category_name, item)
    ELSE IF which = "scrape_mcdonalds" THEN McdRecord(category_name, item)
    ELSE BkRecord(category_name, item)

\* the three MenuScraper extractors: for category in menu_categories:
\*     for item in category.select(<item selector>): menu_data.append(...)
RECURSIVE NestedLoop(_, _, _)
NestedLoop(which, titles, items) ==
    IF titles = <<>> THEN <<>>
    ELSE [i \in 1..Len(items) |-> RecordOf(which, CategoryName(Head(titles)), items[i])]
         \o NestedLoop(which, Tail(titles), items)

\* scrape_aw_menu: the text of a .category-menu link ("" for a link without text)
LinkText(title) == IF title # <<>> THEN Join(Strip(Head(title))) ELSE ""

\* scrape_aw_menu: category.replace(' ', '-').replace('&', 'and').replace("'", "").lower()
CategoryClass(title) ==
    IF title = <<>> THEN ""
    ELSE Join(Lower(Replace(Replace(Replace(Strip(Head(title)), " ", <<"-">>),
                                    "&", <<"a","n","d">>), "'", <<>>)))

\* scrape_aw_menu: soup.select(f".{category_class} .item") over the whole page:
\* the item blocks of every category block carrying that class, in document order
RECURSIVE SelectItems(_, _, _)
SelectItems(titles, items, class) ==
    IF titles = <<>> THEN <<>>
    ELSE (IF CategoryClass(Head(titles)) = class THEN items ELSE <<>>)
         \o SelectItems(Tail(titles), items, class)

\* scrape_aw_menu: for category in menu_categories: for item in category_items: ...
RECURSIVE FxLoop(_, _, _)
FxLoop(todo, titles, items) ==
    IF todo = <<>> THEN <<>>
    ELSE LET found == SelectItems(titles, items, CategoryClass(Head(todo)))
         IN  [i \in 1..Len(found) |-> FxRecord(LinkText(Head(todo)), found[i])]
             \o FxLoop(Tail(todo), titles, items)

\* the parse of one extractor on a page: [raised, data]
\* scrape_aw_menu: ". .item", the selector built from an empty class, is
\* rejected by the selector parser and the attempt raises
Extract(which, page) ==
    IF which = "scrape_aw_menu"
    THEN IF \E c \in 1..Len(page.titles) : CategoryClass(page.titles[c]) = ""
         THEN [raised |-> TRUE, data |-> <<>>]
         ELSE [raised |-> FALSE, data |-> FxLoop(page.titles, page.titles, page.items)]
    ELSE [raised |-> FALSE, data |-> NestedLoop(which, page.titles, page.items)]

ExtractPages ==
    { [titles |-> t, items |-> i] :
        t \in UNION { [1..n -> Titles] : n \in 0..MaxCategories },
        i \in UNION { [1..m -> ItemBlocks] : m \in 0..MaxBlockItems } }

ExtractInit ==
    /\ xpage \in ExtractPages
    /\ xwhich \in ExtractorNames
    /\ xret = [done |-> FALSE, raised |-> FALSE, data |-> <<>>]

\* soup = BeautifulSoup(page_source, 'html.parser') and the loops that follow
CallExtractor ==
    /\ ~xret.done
    /\ LET r == Extract(xwhich, xpage)
       IN  xret' = [done |-> TRUE, raised |-> r.raised, data |-> r.data]
    /\ UNCHANGED <<xpage, xwhich>>
    /\ UNCHANGED notExtract

(***************************************************************************)
(* Specifications: one per entry point; the other entry points are idle    *)
(***************************************************************************)
BatchIdle ==
    /\ restaurants = <<>> /\ prior = FALSE /\ pc = "idle" /\ idx = 1
    /\ driver = "none" /\ all_menu_data = <<>> /\ outcome = <<>> /\ extracted = <<>>
    /\ result = "none" /\ raisedAt = 0
    /\ files = InitialFiles(FALSE) /\ saved = [fn \in FileNames |-> "no"]

RetryIdle ==
    /\ attempt = 0 /\ rpc = "idle" /\ sessions = 0 /\ menu_data = <<>>
    /\ sleeps = <<>> /\ log = <<>> /\ returned = [done |-> FALSE, data |-> <<>>]
    /\ awFiles = [fn \in AwFileNames |-> [exists |-> FALSE, content |-> <<>>]]

ScrollIdle == spc = "idle" /\ height = 1 /\ last_height = 0 /\ measured = <<>>

ResolveIdle ==
    /\ rname = <<>> /\ rcalled = <<>>
    /\ rret = [done |-> TRUE, raised |-> FALSE, data |-> <<>>]

CsvIdle == csvData = <<>> /\ csvFile = [exists |-> FALSE, content |-> NoTable] /\ csvRet = "idle"

ExtractIdle ==
    /\ xpage = [titles |-> <<>>, items |-> <<>>] /\ xwhich = "idle"
    /\ xret = [done |-> TRUE, raised |-> FALSE, data |-> <<>>]

\* run_scraper
Init == BatchInit /\ RetryIdle /\ ScrollIdle /\ ResolveIdle /\ CsvIdle /\ ExtractIdle
Next == CreateSession \/ ProcessRestaurant \/ SaveCombined \/ Interrupt \/ Finally
Spec == Init /\ [][Next]_vars

\* scrape_aw_menu
InitRetry == RetryInit /\ BatchIdle /\ ScrollIdle /\ ResolveIdle /\ CsvIdle /\ ExtractIdle
NextRetry == OpenFirefox \/ ExtractFirefox \/ SaveFirefox
SpecRetry == InitRetry /\ [][NextRetry]_vars

\* scroll_page / scroll_to_bottom
InitScroll == ScrollInit /\ BatchIdle /\ RetryIdle /\ ResolveIdle /\ CsvIdle /\ ExtractIdle
NextScroll == MeasureFirst \/ ScrollPass
SpecScroll == InitScroll /\ [][NextScroll]_vars

\* scrape_restaurant
InitResolve == ResolveInit /\ BatchIdle /\ RetryIdle /\ ScrollIdle /\ CsvIdle /\ ExtractIdle
NextResolve == CallScrapeRestaurant
SpecResolve == InitResolve /\ [][NextResolve]_vars

\* save_as_csv
InitCsv == CsvInit /\ BatchIdle /\ RetryIdle /\ ScrollIdle /\ ResolveIdle /\ ExtractIdle
NextCsv == CallSaveCsv
SpecCsv == InitCsv /\ [][NextCsv]_vars

\* the parsing part of the four extractors
InitExtract == ExtractInit /\ BatchIdle /\ RetryIdle /\ ScrollIdle /\ ResolveIdle /\ CsvIdle
NextExtract == CallExtractor
SpecExtract == InitExtract /\ [][NextExtract]_vars

(***************************************************************************)
(* run_scraper: properties                                                 *)
(***************************************************************************)
Terminal == {"items", "empty", "failed", "unsupported"}

NoItems == {"empty", "failed", "unsupported"}

\* C1: an exception raised inside an extractor is turned into an empty result
\* for that restaurant and never enters run_scraper's own handler: the loop
\* moves past a failed restaurant, a run that returns False was ended by
\* something other than an extraction failure, and a run that returns True
\* has given every requested restaurant a terminal outcome.
C1_FailureIsolated ==
    /\ \A i \in 1..Len(restaurants) :
          outcome[i] = "failed" => (raisedAt # i /\ idx > i /\ extracted[i] = <<>>)
    /\ result = "False" => (raisedAt > 0 /\ restaurants[raisedAt] = NonStr)
    /\ result = "True" => \A i \in 1..Len(restaurants) : outcome[i] \in Terminal

\* the first restaurant failed, the second was still extracted
C1_Witness ==
    /\ pc = "done" /\ result = "True" /\ Len(restaurants) = 2
    /\ outcome[1] = "failed" /\ outcome[2] = "items" /\ extracted[2] # <<>>

\* C2: once the MenuScraper session exists, every way out of run_scraper
\* (return True, return False, an exception that escapes) leaves the browser
\* quit.
C2_SessionReleased ==
    (pc = "done" /\ driver # "none") => driver = "closed"

\* an exception escaped run_scraper after the session was created
C2_Witness ==
    pc = "done" /\ result = "raised" /\ driver = "closed"

Called(fn) == saved[fn] # "no"

CombinedCalled ==
    Called(JsonFile("all_restaurants")) /\ Called(CsvFile("all_restaurants"))

\* C5 as stated: with more than one restaurant requested the combined pair
\* is emitted whatever the per-restaurant outcomes, with exactly one it is not.
C5_Original ==
    (pc = "done" /\ result = "True") =>
        (CombinedCalled <=> Len(restaurants) > 1)

\* C5: after a run that processed every restaurant, the two saves of the
\* combined pair are called exactly when more than one restaurant was
\* requested and at least one of them returned items; a file that was
\* written holds the combined list.
C5_CombinedEmitted ==
    (pc = "done" /\ result = "True") =>
        /\ CombinedCalled <=>
              (Len(restaurants) > 1 /\ \E i \in 1..Len(restaurants) : outcome[i] = "items")
        /\ Called(JsonFile("all_restaurants")) <=> Called(CsvFile("all_restaurants"))
        /\ saved[JsonFile("all_restaurants")] = "ok" =>
              files[JsonFile("all_restaurants")].content = all_menu_data
        /\ saved[CsvFile("all_restaurants")] = "ok" =>
              files[CsvFile("all_restaurants")].content = CsvTable(all_menu_data)

\* two restaurants requested, one returned items, the combined pair was written
C5_Witness ==
    /\ pc = "done" /\ result = "True" /\ Len(restaurants) = 2
    /\ outcome[1] = "failed" /\ outcome[2] = "items"
    /\ saved[JsonFile("all_restaurants")] = "ok"
    /\ saved[CsvFile("all_restaurants")] = "ok"

\* the item sequences returned for positions 1..n, concatenated in request order
RECURSIVE ConcatUpTo(_, _)
ConcatUpTo(ex, n) == IF n = 0 THEN <<>> ELSE ConcatUpTo(ex, n - 1) \o ex[n]

IsPrefix(a, b) == Len(a) <= Len(b) /\ SubSeq(b, 1, Len(a)) = a

AwThenUnknown == restaurants = <<NameAW, NameUnknown>>

\* C6: the combined list is always the concatenation, in request order, of
\* what the restaurants processed so far returned (nothing for a failed or
\* unresolvable one); it only grows by appending; and for the request
\* ["A&W", "unknown-place"] the combined list, and the combined files when
\* written, hold exactly the A&W items.
C6_Concatenation ==
    /\ [](/\ all_menu_data = ConcatUpTo(extracted, Len(extracted))
          /\ \A i \in 1..Len(restaurants) :
                outcome[i] \in NoItems \cup {"pending", "raised"} => extracted[i] = <<>>
          /\ (AwThenUnknown /\ pc = "done" /\ result = "True") =>
                /\ all_menu_data = extracted[1]
                /\ saved[JsonFile("all_restaurants")] = "ok" =>
                      files[JsonFile("all_restaurants")].content = extracted[1])
    /\ [][IsPrefix(all_menu_data, all_menu_data')]_vars

\* ["A&W", "unknown-place"], A&W returned items, the combined file was written
C6_Witness ==
    /\ AwThenUnknown /\ pc = "done" /\ result = "True"
    /\ outcome[1] = "items" /\ outcome[2] = "unsupported"
    /\ saved[JsonFile("all_restaurants")] = "ok"
    /\ Len(all_menu_data) = 2

\* position i returned no items, and no other position writing the same
\* files returned any
OnlyNoItems(i) ==
    /\ outcome[i] \in NoItems
    /\ \A j \in 1..Len(restaurants) :
          (outcome[j] = "items") => OutputBase(restaurants[j]) # OutputBase(restaurants[i])

\* C7 as stated: after the run, the output pair of a restaurant whose
\* extraction failed or returned no items is empty, holding nothing of an
\* earlier run.
C7_Original ==
    (pc = "done" /\ result = "True") =>
        \A i \in 1..Len(restaurants) :
            OnlyNoItems(i) =>
                /\ files[JsonFile(OutputBase(restaurants[i]))].content = <<>>
                /\ files[CsvFile(OutputBase(restaurants[i]))].content = NoTable

\* C7: for a restaurant whose extraction failed or returned no items
\* run_scraper makes no save call, so its output pair is exactly what it was
\* before the run: absent, or still holding the earlier run's items.
C7_LeftUntouched ==
    \A i \in 1..Len(restaurants) :
        OnlyNoItems(i) =>
            \A fn \in {JsonFile(OutputBase(restaurants[i])), CsvFile(OutputBase(restaurants[i]))} :
                /\ ~Called(fn)
                /\ files[fn] = InitialFiles(prior)[fn]

\* a failed restaurant whose files still hold the earlier run's items
C7_Witness ==
    /\ pc = "done" /\ result = "True" /\ prior
    /\ outcome[1] = "failed"
    /\ files[JsonFile(OutputBase(restaurants[1]))].content = StaleData

(***************************************************************************)
(* scrape_aw_menu: properties                                              *)
(***************************************************************************)
\* C3: across all attempts of scrape_aw_menu at most one Firefox session is
\* open at any time, and none is open once the function has returned.
C3_OneSession ==
    /\ sessions <= 1
    /\ returned.done => sessions = 0

Raised(i) == log[i] = "raised"

\* C4: scrape_aw_menu begins at most 3 attempts; it has slept 5 exactly once
\* for each failed attempt that is not the third and never for the third;
\* an attempt that completes without an exception is the last one and its
\* records are the return value; the function gives up (returns [] after a
\* raised attempt) only when 3 attempts have raised.
C4_RetryPolicy ==
    /\ Len(log) <= 3
    /\ attempt = Len(log) - 1
    /\ Len(sleeps) = Cardinality({i \in 1..Len(log) : Raised(i) /\ i < 3})
    /\ \A i \in 1..Len(sleeps) : sleeps[i] = 5
    /\ \A i \in 1..Len(log) :
          log[i] = "ok" => (i = Len(log) /\ returned = [done |-> TRUE, data |-> menu_data])
    /\ \A i \in 1..Len(log) : (log[i] = "running") => (i = Len(log) /\ ~returned.done)
    /\ (returned.done /\ Raised(Len(log))) =>
          (Len(log) = 3 /\ returned.data = <<>> /\ \A i \in 1..3 : Raised(i))
    /\ returned.done <=> rpc = "done"

\* two attempts raised, the third returned its records after two sleeps
C4_Witness ==
    /\ returned.done /\ log = <<"raised", "raised", "ok">>
    /\ sleeps = <<5, 5>> /\ returned.data # <<>>

(***************************************************************************)
(* scrape_restaurant: properties                                           *)
(***************************************************************************)
\* c is the letter p, in either case
SameLetter(c, p) ==
    c = p \/ \E k \in 1..26 : UpperAlphabet[k] = c /\ LowerAlphabet[k] = p

\* the name as typed contains pat, letter case ignored
ContainsCI(name, pat) ==
    \E i \in 1..(Len(name) - Len(pat) + 1) :
        \A j \in 1..Len(pat) : SameLetter(name[i + j - 1], pat[j])

HasAW == ContainsCI(rname, PatAW) \/ ContainsCI(rname, PatAWSpaced)
HasMcDonald == ContainsCI(rname, PatMcDonald)
HasBurgerKing == ContainsCI(rname, PatBurgerKing) \/ ContainsCI(rname, PatBurgerking)

\* C8 as stated: every name containing an alias of a restaurant, in any
\* letter case, reaches that restaurant's extractor; a name containing none
\* invokes no extractor, returns [] and raises nothing.
C8_Original ==
    rret.done =>
        /\ HasAW => rcalled = <<"scrape_aw">>
        /\ HasMcDonald => rcalled = <<"scrape_mcdonalds">>
        /\ HasBurgerKing => rcalled = <<"scrape_burger_king">>
        /\ ~(HasAW \/ HasMcDonald \/ HasBurgerKing) =>
              (rcalled = <<>> /\ rret.data = <<>> /\ ~rret.raised)

\* C8: the aliases are tried in the order A&W, McDonald's, Burger King and
\* the first that the name contains, in any letter case, decides the single
\* extractor invoked; a name containing none invokes no extractor, returns []
\* and raises nothing.
C8_FirstMatch ==
    rret.done =>
        /\ HasAW => rcalled = <<"scrape_aw">>
        /\ (HasMcDonald /\ ~HasAW) => rcalled = <<"scrape_mcdonalds">>
        /\ (HasBurgerKing /\ ~HasAW /\ ~HasMcDonald) => rcalled = <<"scrape_burger_king">>
        /\ ~(HasAW \/ HasMcDonald \/ HasBurgerKing) =>
              (rcalled = <<>> /\ rret.data = <<>>)
        /\ ~rret.raised

\* a name holding two aliases, the first of them in upper case, went to the
\* extractor of the first
C8_Witness ==
    /\ rret.done /\ HasMcDonald /\ HasBurgerKing /\ ~HasAW
    /\ ~Contains(rname, PatMcDonald)
    /\ rcalled = <<"scrape_mcdonalds">>

(***************************************************************************)
(* scroll_page / scroll_to_bottom: properties                              *)
(***************************************************************************)
\* measurement i differs from the one before it: the height changed in pass i - 1
Changed(i) == measured[i] # measured[i - 1]

\* C9: the loop returns at the first pass whose measurement equals the
\* previous one: while it runs every pass so far changed the height; when it
\* has returned the last pass did not change it and every earlier one did,
\* so after k changing passes it made exactly k + 1 passes, and exactly one
\* on a page whose height never changes.
C9_StopsAtFirstStable ==
    LET n == Len(measured)
        k == Cardinality({i \in 2..n : Changed(i)})
    IN  /\ spc = "loop" => (n >= 1 /\ \A i \in 2..n : Changed(i))
        /\ spc = "done" =>
              /\ n >= 2
              /\ ~Changed(n)
              /\ \A i \in 2..(n - 1) : Changed(i)
              /\ n - 1 = k + 1
              /\ (measured[2] = measured[1]) => n - 1 = 1

\* two changing passes, then a stable one: three passes
C9_Witness ==
    /\ spc = "done" /\ Len(measured) = 4
    /\ measured[2] # measured[1] /\ measured[3] # measured[2] /\ measured[4] = measured[3]

(***************************************************************************)
(* save_as_csv: properties                                                 *)
(***************************************************************************)
HasNutrition(item) == "nutritional_info" \in DOMAIN item

\* the columns record item contributes
ColumnsOf(item) ==
    (DOMAIN item \ {"nutritional_info"}) \cup
    (IF HasNutrition(item)
     THEN {"nutrition_" \o k : k \in DOMAIN item["nutritional_info"]} ELSE {})

\* the cell of record item under column col
CellOf(item, col) ==
    IF col \in DOMAIN item \ {"nutritional_info"} THEN item[col]
    ELSE IF HasNutrition(item) /\ \E k \in DOMAIN item["nutritional_info"] : "nutrition_" \o k = col
    THEN item["nutritional_info"][CHOOSE k \in DOMAIN item["nutritional_info"] : "nutrition_" \o k = col]
    ELSE ""

\* C10: a successful save_as_csv of a non-empty sequence leaves a table whose
\* header is the sorted union of the records' keys, with each nutrition key k
\* as the column nutrition_k and no nutritional_info column, and one row per
\* record, as wide as the header, blank where the record lacks the column.
C10_CsvShape ==
    csvRet = "True" =>
        LET header == csvFile.content.header
            rows   == csvFile.content.rows
        IN  /\ csvData # <<>>
            /\ {header[c] : c \in 1..Len(header)}
                  = UNION {ColumnsOf(csvData[i]) : i \in 1..Len(csvData)}
            /\ \A c \in 1..(Len(header) - 1) : StrLess(header[c], header[c + 1])
            /\ \A c \in 1..Len(header) : header[c] # "nutritional_info"
            /\ Len(rows) = Len(csvData)
            /\ \A i \in 1..Len(rows) :
                  /\ Len(rows[i]) = Len(header)
                  /\ \A c \in 1..Len(header) : rows[i][c] = CellOf(csvData[i], header[c])

\* a record without nutrition first, one with two nutrition keys second: the
\* first row is blank under the nutrition columns
C10_Witness ==
    /\ csvRet = "True" /\ Len(csvData) = 2
    /\ ~HasNutrition(csvData[1])
    /\ HasNutrition(csvData[2]) /\ DOMAIN csvData[2]["nutritional_info"] = {"Calories", "Fat"}
    /\ Len(csvFile.content.header) = 8
    /\ csvFile.content.rows[1][5] = "" /\ csvFile.content.rows[2][5] = "250"

\* C11: save_as_csv called with an empty sequence returns False and leaves
\* the target file as it was: an absent file stays absent, an existing file
\* keeps its content, and no header-only file is written.
C11_EmptyIsNoOp ==
    [][csvData = <<>> => (csvRet' = "False" /\ csvFile' = csvFile)]_vars

\* an empty sequence was refused and the file of an earlier save is intact
C11_Witness ==
    /\ csvData = <<>> /\ csvRet = "False"
    /\ csvFile = [exists |-> TRUE, content |-> CsvTable(StaleData)]

(***************************************************************************)
(* The extractors: properties                                              *)
(***************************************************************************)
NCat == Len(xpage.titles)
MItems == Len(xpage.items)

\* the record emitted for item block i of category block c, in document order
RecordAt(c, i) == xret.data[(c - 1) * MItems + i]

Complete(item) ==
    item.name # <<>> /\ item.desc # <<>> /\ item.price # <<>>
    /\ item.img # <<>> /\ Head(item.img) # <<>>

\* every category block has a title, no two the same, and every item block
\* has all its sub-elements
WellFormedPage ==
    /\ \A c \in 1..NCat : xpage.titles[c] # <<>>
    /\ \A c, d \in 1..NCat : c # d => xpage.titles[c] # xpage.titles[d]
    /\ \A i \in 1..MItems : Complete(xpage.items[i])

\* N x M records in document order, each under the label of its own category
CountAndAttribution ==
    /\ ~xret.raised
    /\ Len(xret.data) = NCat * MItems
    /\ \A c \in 1..NCat : \A i \in 1..MItems :
          /\ RecordAt(c, i).category = Join(Head(xpage.titles[c]))
          /\ RecordAt(c, i).name = Head(xpage.items[i].name)

\* C12: on a page of N well-formed category blocks of M well-formed item
\* blocks each, every extractor returns exactly N x M records in document
\* order, each under the label of the category block that contains it.
C12_Original ==
    (xret.done /\ WellFormedPage) => CountAndAttribution

\* C12 for the three MenuScraper extractors, which select the item blocks
\* inside each category element
C12_MenuScraperExtractors ==
    (xret.done /\ WellFormedPage /\ xwhich # "scrape_aw_menu") => CountAndAttribution

PriceSentinel(which) ==
    IF which \in {"scrape_aw", "scrape_aw_menu"} THEN "Price not available online"
    ELSE "N/A"

\* the fields of record rec that come from optional sub-elements of item,
\* with price_sentinel standing for a missing price
FieldsWithSentinels(rec, item, price_sentinel) ==
    /\ rec.name = (IF item.name = <<>> THEN "Unknown" ELSE Head(item.name))
    /\ rec.price = (IF item.price = <<>> THEN price_sentinel ELSE Head(item.price))
    /\ rec.description = (IF item.desc = <<>> THEN "" ELSE Head(item.desc))
    /\ (item.img = <<>> \/ Head(item.img) = <<>>) => rec.image_url = ""

CategoryWithSentinel(rec, title) ==
    rec.category = (IF title = <<>> THEN "Uncategorized" ELSE Join(Head(title)))

Completed(item) ==
    [item EXCEPT !.name  = IF @ = <<>> THEN <<"x">> ELSE @,
                 !.desc  = IF @ = <<>> THEN <<"x">> ELSE @,
                 !.price = IF @ = <<>> THEN <<"x">> ELSE @,
                 !.img   = IF @ = <<>> \/ Head(@) = <<>> THEN <<SrcAbsolute>> ELSE @]

CompletedPage ==
    [xpage EXCEPT !.items = [i \in 1..MItems |-> Completed(xpage.items[i])]]

SiteOrigin(which) ==
    IF which = "scrape_mcdonalds"
    THEN <<"h","t","t","p","s",":","/","/","w","w","w",".","m","c","d","o","n","a","l","d","s",".","c","o","m">>
    ELSE IF which = "scrape_burger_king"
    THEN <<"h","t","t","p","s",":","/","/","w","w","w",".","b","k",".","c","o","m">>
    ELSE <<"h","t","t","p","s",":","/","/","w","e","b",".","a","w",".","c","a">>

\* the image_url the claim asks for
AbsoluteImage(which, img) ==
    IF img = <<>> \/ Head(img) = <<>> THEN ""
    ELSE IF Head(Head(img)) = "/" THEN Join(SiteOrigin(which) \o Head(img))
    ELSE Join(Head(img))

\* C14: in every record of the three MenuScraper extractors image_url is
\* empty or absolute: a source starting with "/" has become the site's scheme
\* and host followed by that path, an absolute source is copied unchanged.
C14_Original ==
    (xret.done /\ xwhich # "scrape_aw_menu") =>
        \A c \in 1..NCat : \A i \in 1..MItems :
            (Len(xret.data) = NCat * MItems) =>
                RecordAt(c, i).image_url = AbsoluteImage(xwhich, xpage.items[i].img)

\* C15: when scrape_aw_menu has extracted its records and a write of
\* aw_menu.json or aw_menu.csv fails, the function still returns exactly
\* those records, and the source is not extracted again.
C15_Original ==
    [][rpc = "save" => (rpc' = "done" /\ returned' = [done |-> TRUE, data |-> menu_data])]_vars

====
